---- MODULE Spec2Model ----
(***************************************************************************)
(* Model of data/extract_data_from_capture.py: the script that joins a     *)
(* Wireshark capture (raw_data) with a list of timestamped annotations,    *)
(* slices every matching frame at fixed offsets and collects the rows in   *)
(* `table`, which is printed and copied to the clipboard.                  *)
(*                                                                         *)
(* Strings are sequences of one-character strings, so that Python's        *)
(* slicing and int(s, 16) are computed and not assumed.  A cell of a row   *)
(* is either a string (Str) or an integer (Num).                           *)
(***************************************************************************)
EXTENDS Integers, Sequences, FiniteSets, TLC

(* ------------------------------ bounds -------------------------------- *)

\* largest argument count of the synthetically built frames
MaxArgc == 5
\* most rows of the capture table in the join inputs
MaxFrames == 2
\* most rows of the annotation table
MaxAnnotations == 2

(* ------------------------- literals of the script --------------------- *)

ArgcOffset == 10
CmdOffset == 12
ArgsOffset == 16
ArgWidth == 2
Base == 16

(* ------------------------------ strings ------------------------------- *)

Min(a, b) == IF a < b THEN a ELSE b

\* Python's s[a:b] for 0 <= a <= b: out-of-range bounds are clipped, never
\* an error (a slice past the end is shorter, or empty).
Slice(s, a, b) == SubSeq(s, a + 1, Min(b, Len(s)))

LowerDigits ==
  <<"0","1","2","3","4","5","6","7","8","9","a","b","c","d","e","f">>

UpperDigits ==
  <<"0","1","2","3","4","5","6","7","8","9","A","B","C","D","E","F">>

IsHex(c) == \E i \in 1..Base : LowerDigits[i] = c \/ UpperDigits[i] = c

HexVal(c) ==
  (CHOOSE i \in 1..Base : LowerDigits[i] = c \/ UpperDigits[i] = c) - 1

IsSpace(c) == c = " "

RECURSIVE LStrip(_)
LStrip(s) ==
  IF s # <<>> /\ IsSpace(Head(s)) THEN LStrip(Tail(s)) ELSE s

RECURSIVE RStrip(_)
RStrip(s) ==
  IF s # <<>> /\ IsSpace(s[Len(s)])
  THEN RStrip(SubSeq(s, 1, Len(s) - 1))
  ELSE s

RECURSIVE DigitsValue(_)
DigitsValue(s) ==
  IF s = <<>> THEN 0
  ELSE Base * DigitsValue(SubSeq(s, 1, Len(s) - 1)) + HexVal(s[Len(s)])

\* Python's int(s, 16) on the (at most two character) slice it is given:
\* surrounding whitespace is dropped, one sign is accepted, and what is left
\* must be one or more base-16 digits of either case; anything else raises
\* ValueError (ok = FALSE).  The "0x" prefix and the "_" separator cannot
\* make a valid literal of fewer than three characters.
ParseInt(s) ==
  LET t == RStrip(LStrip(s))
      signed == t # <<>> /\ Head(t) \in {"+", "-"}
      u == IF signed THEN Tail(t) ELSE t
      good == u # <<>> /\ \A i \in 1..Len(u) : IsHex(u[i])
  IN  [ok |-> good,
       val |-> IF ~good THEN 0
               ELSE IF signed /\ Head(t) = "-" THEN 0 - DigitsValue(u)
               ELSE DigitsValue(u)]

(* ------------------------------- cells -------------------------------- *)

Str(s) == [isInt |-> FALSE, s |-> s, n |-> 0]

Num(n) == [isInt |-> TRUE, s |-> <<>>, n |-> n]

Header ==
  << Str(<<"a","c","t","i","o","n">>), Str(<<"c","m","d">>),
     Str(<<"a","r","g","c">>), Str(<<"a","r","g","0">>),
     Str(<<"a","r","g","1">>), Str(<<"a","r","g","2">>),
     Str(<<"a","r","g","3">>) >>

(* --------------------------- frame decoding --------------------------- *)

\* int(frame[10:12], 16)
ArgcField(frame) == Slice(frame, ArgcOffset, ArgcOffset + 2)

\* frame[12:16]
CmdField(frame) == Slice(frame, CmdOffset, CmdOffset + 4)

\* mutant: range(argc - 1), the last argument dropped
ArgRangeShort(argc) == 1..(IF argc < 1 THEN 0 ELSE argc - 1)

\* range(argc), 1-based: empty when argc <= 0
ArgRange(argc) == 1..(IF argc < 0 THEN 0 ELSE argc)

\* mutant: the slices counted from 1, argument 0 skipped
ArgSliceNext(frame, i) ==
  Slice(frame, ArgsOffset + ArgWidth * (i + 1), ArgsOffset + ArgWidth * (i + 1) + 2)

\* frame[(16 + 2 * i):(16 + 2 * i + 2)] for the 0-based i
ArgSlice(frame, i) ==
  Slice(frame, ArgsOffset + ArgWidth * i, ArgsOffset + ArgWidth * i + 2)

\* the cells one pass of the frame loop adds to row: cmd, argc, arguments
DecodedCells(frame, argc) ==
  << Str(CmdField(frame)), Num(argc) >> \o
  [i \in ArgRange(argc) |-> Str(ArgSlice(frame, i - 1))]

(* ------------------------------ the join ------------------------------ *)

\* mutant: rounding down instead of toward zero
AsIntFloor(t) == t \div 2

\* Series.astype(int) of a Time given in halves of a second: truncation
\* toward zero
AsInt(t) == IF t >= 0 THEN t \div 2 ELSE 0 - ((0 - t) \div 2)

RECURSIVE SelectFrom(_, _, _)
SelectFrom(data, t, k) ==
  IF k > Len(data) THEN <<>>
  ELSE (IF AsInt(data[k].Time) = t
        THEN << [idx |-> k, Data |-> data[k].Data] >>
        ELSE <<>>) \o SelectFrom(data, t, k + 1)

\* (raw_data[raw_data["Time"].astype(int) == time_s])["Data"]: the Data of
\* the matching rows, in file order, each with its row label
Select(data, t) == SelectFrom(data, t, 1)

\* mutant: the assertion compiled away
AssertStripped(frames) == TRUE

\* assert len(usb_frames)
AssertHolds(frames) == Len(frames) # 0

\* mutant: the row inserted right after the header
InsertRow(t, r) == << Head(t), r >> \o Tail(t)

\* table.append(row)
AppendRow(t, r) == Append(t, r)

\* mutant: the description repeated on every row of the group
KeepDescription(r) == << r[1] >>

\* mutant: the row never started afresh
KeepRow(r) == r

\* row = ['']
ResetRow(r) == << Str(<<>>) >>

(* ------------------------------- inputs ------------------------------- *)

\* n as two lower-case base-16 digits
Hex2(n) == << LowerDigits[(n \div Base) + 1], LowerDigits[(n % Base) + 1] >>

RECURSIVE Flatten(_)
Flatten(ss) == IF ss = <<>> THEN <<>> ELSE Head(ss) \o Flatten(Tail(ss))

\* header(10 hex) + argc(2 hex) + cmd(4 hex) + args(2 hex each)
Build(h, n, c, as) == h \o Hex2(n) \o c \o Flatten(as)

FrameHeader == <<"a","a","b","b","c","c","d","d","e","e">>

Cmds == { <<"a","b","c","d">>, <<"0","0","g","1">> }

\* argument bytes 01, 02, ..., m
ArgBytes(m) == [i \in 1..m |-> Hex2(i)]

\* the argc fields of the frames: every count up to MaxArgc, an upper-case
\* count, and fields that are no two base-16 digits
Fields ==
  { Hex2(n) : n \in 0..MaxArgc } \cup
  { <<"0","A">>, <<"g","1">>, <<"-","1">>, <<" ","2">>, <<"1","z">> }

LongFrames ==
  { FrameHeader \o f \o c \o Flatten(ArgBytes(MaxArgc + 1)) :
      f \in Fields, c \in Cmds }

\* every frame of LongFrames cut at every length: built frames with 0 to
\* MaxArgc + 1 argument bytes, padded and truncated ones
FrameSet == { SubSeq(f, 1, k) : f \in LongFrames, k \in 0..(ArgsOffset + ArgWidth * (MaxArgc + 1)) }

\* the frames of the join inputs: a well-formed one and one whose argc
\* field does not parse
JoinFrames ==
  { Build(FrameHeader, 2, <<"a","b","c","d">>, ArgBytes(2)),
    FrameHeader \o <<"g","1">> \o <<"a","b","c","d">> \o <<"0","1">> }

\* capture times in halves of a second: -0.5, 0.5, 1.5
Times == {-1, 1, 3}

AnnTimes == {0, 1}

Descriptions == { <<"f","a","n">>, <<"l","e","d">> }

Tables(rows, n) == UNION { [1..k -> rows] : k \in 1..n }

AnnotationTables(n) == Tables([ts : AnnTimes, desc : Descriptions], n)

\* the inputs of a run: a capture of up to MaxFrames of the join frames at
\* any of the times with up to MaxAnnotations annotations, or a capture of
\* one frame of FrameSet at time 1.5 with one annotation
Inputs ==
  (Tables([Time : Times, Data : JoinFrames], MaxFrames)
     \X AnnotationTables(MaxAnnotations)) \cup
  (Tables([Time : {3}, Data : FrameSet], 1) \X AnnotationTables(1))

(* ------------------------------- state -------------------------------- *)

VARIABLES
  raw_data,     \* the capture table: rows [Time, Data]
  annotations,  \* the annotation table: rows [ts, desc]
  table,        \* the output table, header first
  index,        \* position of the annotation being processed (0: none yet)
  time_s,
  description,
  usb_frames,   \* the frames selected for the annotation, with row labels
  fpos,         \* frames of usb_frames consumed by the frame loop
  row,
  console,      \* what print() has written: a sequence of tables
  clipboard,    \* what to_clipboard() has exported: a sequence of tables
  pc,           \* "loop", "frames", "print", "clipboard", "done", "failed"
  error,        \* the uncaught exception that ended the run, or "none"
  src           \* history: for every data row of table, the annotation and
                \* the capture row it was decoded from

vars == << raw_data, annotations, table, index, time_s, description,
           usb_frames, fpos, row, console, clipboard, pc, error, src >>

Init ==
  /\ \E inp \in Inputs : raw_data = inp[1] /\ annotations = inp[2]
  /\ table = << Header >>
  /\ index = 0
  /\ time_s = 0
  /\ description = <<>>
  /\ usb_frames = <<>>
  /\ fpos = 0
  /\ row = <<>>
  /\ console = <<>>
  /\ clipboard = <<>>
  /\ pc = "loop"
  /\ error = "none"
  /\ src = <<>>

\* lines 18-23 with the assertion holding: the next annotation is fetched,
\* its frames are selected and the frame loop is entered
NextAnnotation ==
  /\ pc = "loop"
  /\ index < Len(annotations)
  /\ LET a == annotations[index + 1]
         frames == Select(raw_data, a.ts)
     IN  /\ AssertHolds(frames)
         /\ index' = index + 1
         /\ time_s' = a.ts
         /\ description' = a.desc
         /\ usb_frames' = frames
         /\ row' = << Str(a.desc) >>
         /\ fpos' = 0
         /\ pc' = "frames"
  /\ UNCHANGED << raw_data, annotations, table, console, clipboard, error, src >>

\* lines 18-23 with the assertion failing: AssertionError ends the run
AssertFails ==
  /\ pc = "loop"
  /\ index < Len(annotations)
  /\ LET a == annotations[index + 1]
         frames == Select(raw_data, a.ts)
     IN  /\ ~AssertHolds(frames)
         /\ index' = index + 1
         /\ time_s' = a.ts
         /\ description' = a.desc
         /\ usb_frames' = frames
         /\ row' = << Str(a.desc) >>
         /\ pc' = "failed"
         /\ error' = "AssertionError"
  /\ UNCHANGED << raw_data, annotations, table, fpos, console, clipboard, src >>

\* lines 24-31: one pass of the frame loop on a frame whose argc parses
DecodeFrame ==
  /\ pc = "frames"
  /\ fpos < Len(usb_frames)
  /\ LET frame == usb_frames[fpos + 1].Data
         p == ParseInt(ArgcField(frame))
     IN  /\ p.ok
         /\ table' = AppendRow(table, row \o DecodedCells(frame, p.val))
         /\ row' = ResetRow(row \o DecodedCells(frame, p.val))
         /\ src' = Append(src, [ann |-> index, raw |-> usb_frames[fpos + 1].idx])
  /\ fpos' = fpos + 1
  /\ UNCHANGED << raw_data, annotations, index, time_s, description,
                  usb_frames, console, clipboard, pc, error >>

\* line 25 raising ValueError: the run ends before the row is touched
DecodeFails ==
  /\ pc = "frames"
  /\ fpos < Len(usb_frames)
  /\ ~ParseInt(ArgcField(usb_frames[fpos + 1].Data)).ok
  /\ fpos' = fpos + 1
  /\ pc' = "failed"
  /\ error' = "ValueError"
  /\ UNCHANGED << raw_data, annotations, table, index, time_s, description,
                  usb_frames, row, console, clipboard, src >>

\* line 24 with usb_frames exhausted: back to the annotation loop
FramesDone ==
  /\ pc = "frames"
  /\ fpos = Len(usb_frames)
  /\ pc' = "loop"
  /\ UNCHANGED << raw_data, annotations, table, index, time_s, description,
                  usb_frames, fpos, row, console, clipboard, error, src >>

\* line 18 with the annotations exhausted: on to the output
LoopDone ==
  /\ pc = "loop"
  /\ index = Len(annotations)
  /\ pc' = "print"
  /\ UNCHANGED << raw_data, annotations, table, index, time_s, description,
                  usb_frames, fpos, row, console, clipboard, error, src >>

\* line 33: print(pd.DataFrame(table))
PrintTable ==
  /\ pc = "print"
  /\ console' = Append(console, table)
  /\ pc' = "clipboard"
  /\ UNCHANGED << raw_data, annotations, table, index, time_s, description,
                  usb_frames, fpos, row, clipboard, error, src >>

\* line 35: pd.DataFrame(table).to_clipboard()
ToClipboard ==
  /\ pc = "clipboard"
  /\ clipboard' = Append(clipboard, table)
  /\ pc' = "done"
  /\ UNCHANGED << raw_data, annotations, table, index, time_s, description,
                  usb_frames, fpos, row, console, error, src >>

Next ==
  \/ NextAnnotation
  \/ AssertFails
  \/ DecodeFrame
  \/ DecodeFails
  \/ FramesDone
  \/ LoopDone
  \/ PrintTable
  \/ ToClipboard

Spec == Init /\ [][Next]_vars

(* ------------------------ vocabulary of the claims -------------------- *)

\* the data rows of table are table[j + 1] for j in DataRows
DataRows == 1..(Len(table) - 1)

\* the frame data row j was decoded from
FrameOf(j) == raw_data[src[j].raw].Data

\* the value of Time truncated to an integer, stated without AsInt: the
\* integer z nearest to zero with |z| <= |t / 2| < |z| + 1
Truncated(t) ==
  CHOOSE z \in -2..2 :
    \/ t >= 0 /\ 2 * z <= t /\ t < 2 * z + 2
    \/ t < 0 /\ 2 * z >= t /\ t > 2 * z - 2

\* capture row f matches annotation a
Matches(a, f) == Truncated(raw_data[f].Time) = annotations[a].ts

MatchesOf(a) == { f \in 1..Len(raw_data) : Matches(a, f) }

RowsOf(a) == { j \in DataRows : src[j].ann = a }

\* the annotation loop has finished annotation a
Completed(a) ==
  \/ a < index
  \/ a = index /\ pc \in {"loop", "print", "clipboard", "done"}

\* characters a+1..b of f exist and are base-16 digits
HexAt(f, a, b) == Len(f) >= b /\ \A i \in (a + 1)..b : IsHex(f[i])

\* the argument count a frame declares, read off its two digits
Declared(f) == Base * HexVal(f[ArgcOffset + 1]) + HexVal(f[ArgcOffset + 2])

\* a frame of hex digits, at least 16 + 2 * argc characters long
ValidFrame(f) ==
  /\ HexAt(f, 0, Len(f))
  /\ Len(f) >= ArgsOffset
  /\ Len(f) >= ArgsOffset + ArgWidth * Declared(f)

\* the parameters frames are built from
BuildParams ==
  { [h |-> FrameHeader, n |-> n, c |-> c, as |-> ArgBytes(n)] :
      n \in 0..(MaxArgc + 1), c \in Cmds }

ExampleFrame ==
  <<"a","a","b","b","c","c","d","d","e","e","0","3","a","b","c","d",
    "0","1","0","2","0","3">>

(* -------------------------------- C1 ---------------------------------- *)

\* C1: a row decoded from a frame built as header + argc + cmd + args holds,
\* after the description cell, exactly the cmd (verbatim), the argc (as an
\* integer) and the arguments in frame order that the frame was built from.
RoundTrip ==
  \A j \in DataRows : \A p \in BuildParams :
    (Len(FrameOf(j)) = ArgsOffset + ArgWidth * p.n
       /\ FrameOf(j) = Build(p.h, p.n, p.c, p.as)) =>
      Tail(table[j + 1]) =
        << Str(p.c), Num(p.n) >> \o [i \in 1..p.n |-> Str(p.as[i])]

RoundTripWitness ==
  \E j \in DataRows :
    /\ FrameOf(j) = ExampleFrame
    /\ Tail(table[j + 1]) =
         << Str(<<"a","b","c","d">>), Num(3),
            Str(<<"0","1">>), Str(<<"0","2">>), Str(<<"0","3">>) >>

(* -------------------------------- C2 ---------------------------------- *)

Malformed(f) ==
  \/ ~HexAt(f, ArgcOffset, ArgcOffset + 2)
  \/ ~HexAt(f, CmdOffset, CmdOffset + 4)
  \/ Len(f) < ArgsOffset + ArgWidth * Declared(f)

\* C2: decoding fails, and no row is emitted, for every frame that is
\* shorter than 16 + 2 * argc or whose argc or cmd characters are not hex
\* digits: no row of the table comes from a malformed frame.
MalformedFramesFail == \A j \in DataRows : ~Malformed(FrameOf(j))

(* -------------------------------- C3 ---------------------------------- *)

\* C3: if an annotation matches no frame, the run aborts at it: the loop
\* never gets past it, no row is appended for it, and nothing is printed or
\* exported, whatever was decoded before it.
FatalPath ==
  \A a \in 1..Len(annotations) :
    MatchesOf(a) = {} =>
      /\ index <= a
      /\ index = a => pc = "failed" /\ error = "AssertionError"
      /\ RowsOf(a) = {}
      /\ console = <<>> /\ clipboard = <<>>
      /\ pc \notin {"print", "clipboard", "done"}

FatalPathWitness ==
  /\ index = 2
  /\ MatchesOf(2) = {}
  /\ pc = "failed"
  /\ error = "AssertionError"
  /\ RowsOf(1) # {}

(* -------------------------------- C4 ---------------------------------- *)

\* C4: once the loop has finished an annotation matching k >= 1 frames, the
\* table holds exactly k rows for it, consecutive, the first with the
\* (non-empty) description in its first cell and the others with ''.
Grouping ==
  \A a \in 1..Len(annotations) :
    (Completed(a) /\ MatchesOf(a) # {}) =>
      /\ Cardinality(RowsOf(a)) = Cardinality(MatchesOf(a))
      /\ \A j \in RowsOf(a) :
           IF j - 1 \in RowsOf(a)
           THEN table[j + 1][1] = Str(<<>>)
           ELSE /\ table[j + 1][1] = Str(annotations[a].desc)
                /\ table[j + 1][1].s # <<>>
                /\ \A i \in RowsOf(a) : i >= j

GroupingWitness ==
  \E a \in 1..Len(annotations) :
    /\ Completed(a)
    /\ Cardinality(MatchesOf(a)) = 2
    /\ \E j \in RowsOf(a) :
         /\ j + 1 \in RowsOf(a)
         /\ table[j + 1][1].s # <<>>
         /\ table[j + 2][1].s = <<>>

(* -------------------------------- C5 ---------------------------------- *)

\* C5: a row decoded from a valid frame whose argc field decodes to n has
\* exactly 3 + n cells, and its n argument cells are the 2-hex-digit strings
\* of the frame in frame order.
ArgumentCount ==
  \A j \in DataRows :
    ValidFrame(FrameOf(j)) =>
      LET f == FrameOf(j)
          r == table[j + 1]
          n == Declared(f)
      IN  /\ r[3] = Num(n)
          /\ Len(r) = 3 + n
          /\ \A i \in 1..n :
               /\ r[3 + i] =
                    Str(<< f[ArgsOffset + ArgWidth * (i - 1) + 1],
                           f[ArgsOffset + ArgWidth * (i - 1) + 2] >>)
               /\ HexAt(r[3 + i].s, 0, 2)

ArgumentCountWitness ==
  \E j \in DataRows :
    /\ ValidFrame(FrameOf(j))
    /\ Declared(FrameOf(j)) = 3
    /\ Len(table[j + 1]) = 6
    /\ table[j + 1][6] = Str(<<"0","3">>)

(* -------------------------------- C6 ---------------------------------- *)

\* C6: for every frame decoded into a row, at least argc complete
\* 2-character argument slices fit between offset 16 and the end of the
\* frame, so no argument cell is an empty or 1-character string.
ArgcConsistent ==
  \A j \in DataRows :
    LET f == FrameOf(j)
        r == table[j + 1]
    IN  /\ Len(f) >= ArgsOffset + ArgWidth * r[3].n
        /\ \A i \in 4..Len(r) : Len(r[i].s) = ArgWidth

(* -------------------------------- C7 ---------------------------------- *)

\* C7: two rows decoded from equal frames hold the same cmd, argc and
\* arguments, whichever annotation and capture row they come from and
\* whatever was decoded before; and no step changes the capture table or
\* the annotation table.
SameFrameSameCells ==
  \A i, j \in DataRows :
    FrameOf(i) = FrameOf(j) => Tail(table[i + 1]) = Tail(table[j + 1])

Deterministic ==
  [][ /\ raw_data' = raw_data
      /\ annotations' = annotations
      /\ SameFrameSameCells' ]_vars

DeterministicWitness ==
  \E i, j \in DataRows :
    /\ FrameOf(i) = FrameOf(j)
    /\ src[i].ann # src[j].ann
    /\ src[i].raw # src[j].raw
    /\ i + 1 \in DataRows /\ src[i + 1].ann = src[i].ann
    /\ FrameOf(i + 1) = FrameOf(i)
    /\ Len(table[i + 1]) > 3

(* -------------------------------- C8 ---------------------------------- *)

\* C8: a row is decoded for an annotation from a capture row only if the
\* row's Time truncated to an integer equals the annotation's timestamp,
\* and once the loop has finished an annotation, every capture row that
\* matches it has contributed exactly one row for it (so a frame matching
\* no annotation contributes nothing and a frame matching several
\* contributes one row for each).
JoinSelection ==
  /\ \A j \in DataRows : Matches(src[j].ann, src[j].raw)
  /\ \A a \in 1..Len(annotations) :
       Completed(a) =>
         \A f \in MatchesOf(a) :
           Cardinality({ j \in RowsOf(a) : src[j].raw = f }) = 1

JoinSelectionWitness ==
  /\ pc = "done"
  /\ Len(annotations) = 2
  /\ \E f \in 1..Len(raw_data) :
       /\ Matches(1, f) /\ Matches(2, f)
       /\ raw_data[f].Time = 3
       /\ Cardinality({ j \in DataRows : src[j].raw = f }) = 2
  /\ \E f \in 1..Len(raw_data) :
       /\ ~Matches(1, f) /\ ~Matches(2, f)
       /\ { j \in DataRows : src[j].raw = f } = {}

(* -------------------------------- C9 ---------------------------------- *)

\* C9: the first row of the table is the 7-cell header and every data row
\* has at most 7 cells, so that every argument falls under one of arg0..arg3
\* (stated for the rows decoded from valid frames, which the claim covers
\* whatever becomes of the malformed ones).
TableShape ==
  /\ table[1] = Header
  /\ Len(table[1]) = 7
  /\ \A j \in DataRows :
       ValidFrame(FrameOf(j)) => Len(table[j + 1]) <= 7

(* -------------------------------- C10 --------------------------------- *)

RECURSIVE PairsFrom(_, _)
PairsFrom(a, f) ==
  IF a > Len(annotations) THEN <<>>
  ELSE IF f > Len(raw_data) THEN PairsFrom(a + 1, 1)
  ELSE (IF Matches(a, f) THEN << [ann |-> a, raw |-> f] >> ELSE <<>>)
       \o PairsFrom(a, f + 1)

\* every (annotation, matching capture row), in annotation-file order and
\* within one annotation in capture-file order
ExpectedPairs == PairsFrom(1, 1)

IsPrefix(s, t) == Len(s) <= Len(t) /\ SubSeq(t, 1, Len(s)) = s

OutputComplete ==
  /\ table[1] = Header
  /\ Len(src) = Len(table) - 1
  /\ clipboard # <<>> => console # <<>> /\ clipboard = << table >>
  /\ console # <<>> =>
       /\ console = << table >>
       /\ index = Len(annotations)
       /\ error = "none"
       /\ pc \in {"clipboard", "done"}
       /\ src = ExpectedPairs
       /\ \A j \in DataRows :
            table[j + 1][2] = Str(Slice(FrameOf(j), CmdOffset, CmdOffset + 4))

\* C10: the table is printed, then exported, only after every annotation
\* was processed without failure; it then holds the header and one row per
\* (annotation, matching frame) in annotation order and, within an
\* annotation, capture order; and rows are only ever appended.
OrderedComplete == [][ IsPrefix(table, table') /\ OutputComplete' ]_vars

OrderedCompleteWitness ==
  /\ pc = "done"
  /\ clipboard = << table >>
  /\ console = << table >>
  /\ Len(table) = 3
  /\ src[1] = [ann |-> 1, raw |-> 2]
  /\ src[2] = [ann |-> 2, raw |-> 1]

====
